---- MODULE Spec2Model ----
(***************************************************************************)
(* Model of the Kd-Tree of my_rust_utils (src/data_struct_utils/kd_tree).  *)
(*                                                                         *)
(* Two implementations are modelled:                                       *)
(*   - kd_tree/mod.rs : the Box-owned tree (From, nearest, add_point,      *)
(*                      is_empty, size, height)                            *)
(*   - kd_tree.rs     : the reference-counted tree (From, nearest)         *)
(*                                                                         *)
(* Coordinates are f64 in the source; the model draws them from the small  *)
(* integers of Coord, which f64 represents and squares exactly.         *)
(* Option<T> is modelled as a sequence of length at most one:              *)
(* None = <<>>, Some(x) = <<x>>.  Rust indices are 0-based, TLA+ sequences *)
(* 1-based: points[i] of the source is points[i + 1] here.                 *)
(***************************************************************************)
EXTENDS Integers, Sequences, FiniteSets, TLC

VARIABLES
    DIM,        \* const generic DIM of KdTree<DIM, POINT>
    pc,         \* "start" (no tree yet), "ready", "panicked"
    root,       \* KdTree::root       : Option<Box<Node<DIM>>>   (mod.rs)
    base_node,  \* KdTree::base_node  : Option<Rc<Node<DIM>>>    (kd_tree.rs)
    points,     \* KdTree::points     : Vec<POINT>
    op,         \* the last operation that built or changed the tree
    target,     \* Some(coordinate) of the last query, None otherwise
    result      \* the Option<&POINT> the last query returned, as the
                \* borrowed storage slot: Some(index) stands for &points[index]

vars == <<DIM, pc, root, base_node, points, op, target, result>>


\* Largest number of points a tree holds (input list plus add_point calls).
MaxPoints == 3

\* The dimensions the trees are instantiated with (0 is the degenerate case).
Dims == {0, 1, 2}

None == <<>>

Some(x) == <<x>>

\* The coordinate values stored points and query targets are drawn from.
Coord == {0, 1, 2}

\* [f64; DIM] for a dimension d
Coordinates(d) == [1..d -> Coord]

\* Vec<[f64; DIM]> of length at most n
PointLists(d, n) == UNION {[1..k -> Coordinates(d)] : k \in 0..n}

\* impl KdTreePoint<DIM> for [f64; DIM]: the point borrowed as its coordinate
as_kdtree_point(p) == p

RECURSIVE SumSq(_, _, _)
SumSq(a, b, i) ==
    IF i = 0 THEN 0 ELSE SumSq(a, b, i - 1) + (a[i] - b[i]) * (a[i] - b[i])

\* Point::squared_distance
squared_distance(self, other) == SumSq(self.position, other, Len(other))

\* a build that takes the first position as its pivot
median_first(len) == 0

\* indices.len() / 2 in construct_kdtree
median_of(len) == len \div 2

\* a selection that splits at the median position without ordering anything
select_nth_unordered(values, indices, median, axis) ==
    { <<L, i, (indices \ L) \ {i}>> :
        <<L, i>> \in { <<L, i>> \in (SUBSET indices) \X indices :
            i \notin L /\ Cardinality(L) = median } }

\* select_nth_unstable_by(median, cmp on axis): every outcome the selection
\* may produce, as <<left, index, right>>: the index at the median position,
\* median indices before it that compare <=, the others after it, >=.
\* The order inside left and right is unspecified and is forgotten here.
select_nth(values, indices, median, axis) ==
    { <<L, i, (indices \ L) \ {i}>> :
        <<L, i>> \in { <<L, i>> \in (SUBSET indices) \X indices :
            /\ i \notin L
            /\ Cardinality(L) = median
            /\ \A l \in L :
                 as_kdtree_point(values[l + 1])[axis + 1]
                    <= as_kdtree_point(values[i + 1])[axis + 1]
            /\ \A r \in (indices \ L) \ {i} :
                 as_kdtree_point(values[r + 1])[axis + 1]
                    >= as_kdtree_point(values[i + 1])[axis + 1] } }

RECURSIVE construct_kdtree(_, _, _)
\* Node::construct_kdtree: the set of subtrees the build may return
construct_kdtree(values, indices, depth) ==
    IF indices = {} THEN { None }
    ELSE LET axis   == depth % DIM
             median == median_of(Cardinality(indices))
         IN UNION { { Some([point |-> [position |-> as_kdtree_point(values[s[2] + 1]),
                                       index    |-> s[2]],
                            left  |-> l,
                            right |-> r]) :
                        l \in construct_kdtree(values, s[1], depth + 1),
                        r \in construct_kdtree(values, s[3], depth + 1) } :
                    s \in select_nth(values, indices, median, axis) }

\* an insertion that also sends a point equal to the node to the right
goes_right_on_equal(self, new_node, axis) ==
    self.point.position[axis + 1] <= new_node.point.position[axis + 1]

\* self.point.position[axis] < new_node.point.position[axis] in add_node
goes_right(self, new_node, axis) ==
    self.point.position[axis + 1] < new_node.point.position[axis + 1]

\* an insertion that attaches at the root's slot without descending,
\* replacing whatever subtree was there
add_node_overwrite(self, new_node, depth) ==
    LET axis == depth % DIM
    IN IF goes_right(self, new_node, axis)
       THEN [self EXCEPT !.right = Some(new_node)]
       ELSE [self EXCEPT !.left = Some(new_node)]

RECURSIVE add_node(_, _, _)
\* Node::add_node: the node self after the call
add_node(self, new_node, depth) ==
    LET axis == depth % DIM
    IN IF goes_right(self, new_node, axis)
       THEN IF self.right # None
            THEN [self EXCEPT !.right = Some(add_node(self.right[1], new_node, depth + 1))]
            ELSE [self EXCEPT !.right = Some(new_node)]
       ELSE IF self.left # None
            THEN [self EXCEPT !.left = Some(add_node(self.left[1], new_node, depth + 1))]
            ELSE [self EXCEPT !.left = Some(new_node)]

\* Node::is_leaf
is_leaf(self) == self.left = None /\ self.right = None

Max(a, b) == IF a >= b THEN a ELSE b

RECURSIVE Node_height(_, _)
\* Node::height
Node_height(self, depth) ==
    IF is_leaf(self) THEN depth + 1
    ELSE Max(IF self.right # None THEN Node_height(self.right[1], depth + 1) ELSE 0,
             IF self.left # None THEN Node_height(self.left[1], depth + 1) ELSE 0)

\* KdTree::height
height == IF root # None THEN Node_height(root[1], 0) ELSE 0

\* KdTree::is_empty
is_empty == root = None

\* KdTree::size
size == Len(points)

\* a best-candidate update that lets a later equidistant node win
update_best_on_equal(self, target_, best) ==
    IF best = None THEN self
    ELSE IF squared_distance(self.point, target_) <= squared_distance(best[1].point, target_)
         THEN self
         ELSE best[1]

\* the best-candidate update of Node::nearest; best is an Option,
\* best.map_or(INFINITY, ..) makes an absent best lose against any node
update_best(self, target_, best) ==
    IF best = None THEN self
    ELSE IF squared_distance(self.point, target_) < squared_distance(best[1].point, target_)
         THEN self
         ELSE best[1]

\* a search that never goes back into the opposite branch
search_opposite_never(self, target_, axis, best) == FALSE

\* the test that opens the opposite branch in Node::nearest
search_opposite(self, target_, axis, best) ==
    (target_[axis + 1] - self.point.position[axis + 1])
        * (target_[axis + 1] - self.point.position[axis + 1])
      < squared_distance(best.point, target_)

RECURSIVE Node_nearest(_, _, _, _)
\* Node::nearest (mod.rs): Option<&Node>
Node_nearest(self, target_, depth, best) ==
    LET point == self.point
        best0 == update_best(self, target_, best)
        axis  == depth % DIM
        left_first == target_[axis + 1] < point.position[axis + 1]
        next  == IF left_first THEN self.left ELSE self.right
        opposite_branch == IF left_first THEN self.right ELSE self.left
        candidate == IF next = None THEN None
                     ELSE Node_nearest(next[1], target_, depth + 1, Some(best0))
        best1 == IF candidate = None THEN best0 ELSE candidate[1]
    IN IF search_opposite(self, target_, axis, best1)
       THEN IF opposite_branch = None THEN Some(best1)
            ELSE LET r == Node_nearest(opposite_branch[1], target_, depth + 1, Some(best1))
                 IN IF r = None THEN Some(best1) ELSE r
       ELSE Some(best1)

Init ==
    /\ DIM \in Dims
    /\ pc = "start"
    /\ root = None
    /\ base_node = None
    /\ points = <<>>
    /\ op = "none"
    /\ target = None
    /\ result = None

\* an index taken after the push instead of before it
new_index_after_push(pts) == Len(pts) + 1

\* let index = self.points.len() in add_point, read before the push
new_index(pts) == Len(pts)

\* impl From<Vec<POINT>> for KdTree (mod.rs)
From(value) ==
    /\ pc = "start"
    /\ pc' = "ready"
    /\ op' = "from"
    /\ points' = value
    /\ IF DIM = 0
       THEN root' = None
       ELSE root' \in construct_kdtree(value, 0..(Len(value) - 1), 0)
    /\ UNCHANGED <<DIM, base_node, target, result>>

\* KdTree::add_point (mod.rs).  With DIM = 0 and a root present, add_node
\* evaluates depth % DIM and panics, after the point was pushed.
add_point(point) ==
    /\ pc = "ready"
    /\ target = None
    /\ Len(points) < MaxPoints
    /\ LET position == as_kdtree_point(point)
           index    == new_index(points)
           new_node == [point |-> [position |-> position, index |-> index],
                        left |-> None, right |-> None]
       IN /\ points' = Append(points, point)
          /\ IF root # None
             THEN IF DIM = 0
                  THEN /\ pc' = "panicked"
                       /\ root' = root
                  ELSE /\ pc' = pc
                       /\ root' = Some(add_node(root[1], new_node, 0))
             ELSE /\ pc' = pc
                  /\ root' = Some(new_node)
    /\ op' = "add_point"
    /\ target' = None
    /\ result' = None
    /\ UNCHANGED <<DIM, base_node>>

\* KdTree::nearest_by_coord and KdTree::nearest (mod.rs); nearest adapts its
\* POINT argument with as_kdtree_point and runs the same search.  With
\* DIM = 0 and a root present, Node::nearest evaluates depth % DIM and panics.
nearest_by_coord(coord) ==
    /\ pc = "ready"
    /\ target = None
    /\ op' = op
    /\ target' = Some(coord)
    /\ IF root # None /\ DIM = 0
       THEN /\ pc' = "panicked"
            /\ result' = None
       ELSE /\ pc' = pc
            /\ result' = IF root = None THEN None
                         ELSE LET b == Node_nearest(root[1], coord, 0, None)
                              IN IF b = None THEN None ELSE Some(b[1].point.index)
    /\ UNCHANGED <<DIM, root, base_node, points>>

\* The Option<&POINT> a query returned borrows the tree (&self): add_point
\* (&mut self) can run only once the caller has let go of it.  The model
\* keeps one query result at a time.
release ==
    /\ pc = "ready"
    /\ target # None
    /\ op' = op
    /\ target' = None
    /\ result' = None
    /\ UNCHANGED <<DIM, pc, root, base_node, points>>

Next ==
    \/ pc = "start" /\ \E value \in PointLists(DIM, MaxPoints) : From(value)
    \/ \E point \in Coordinates(DIM) : add_point(point)
    \/ \E coord \in Coordinates(DIM) : nearest_by_coord(as_kdtree_point(coord))
    \/ release

Spec == Init /\ [][Next]_vars

\* Largest input list of the build-only specification.
MaxBuild == 5

\* The coordinate values of the build-only specification: two values make
\* duplicate-heavy lists, every order of them is drawn.
BuildCoord == {0, 1}

\* Vec<[f64; DIM]> of length at most MaxBuild over BuildCoord
BuildLists(d) == UNION {[1..k -> [1..d -> BuildCoord]] : k \in 0..MaxBuild}

InitBuild == Init /\ DIM \in {1, 2}

NextBuild == pc = "start" /\ \E value \in BuildLists(DIM) : From(value)

\* KdTree::from alone, on longer lists
SpecBuild == InitBuild /\ [][NextBuild]_vars

(***************************************************************************)
(* The reference-counted tree of kd_tree.rs.                               *)
(***************************************************************************)

RECURSIVE Rc_construct_kdtree(_, _, _)
\* Node::construct_kdtree (kd_tree.rs): the set of subtrees the build may return
Rc_construct_kdtree(values, indices, depth) ==
    IF indices = {} THEN { None }
    ELSE LET axis   == depth % DIM
             median == Cardinality(indices) \div 2
         IN UNION { { Some([point |-> [position |-> as_kdtree_point(values[s[2] + 1]),
                                       index    |-> s[2]],
                            left  |-> l,
                            right |-> r]) :
                        l \in Rc_construct_kdtree(values, s[1], depth + 1),
                        r \in Rc_construct_kdtree(values, s[3], depth + 1) } :
                    s \in select_nth(values, indices, median, axis) }

\* f64::abs
Abs(x) == IF x < 0 THEN -x ELSE x

RECURSIVE Rc_Node_nearest(_, _, _, _)
\* Node::nearest (kd_tree.rs): Option<&Node>
Rc_Node_nearest(self, target_, depth, best) ==
    LET point == self.point
        best0 == IF best # None
                 THEN IF squared_distance(point, target_)
                           < squared_distance(best[1].point, target_)
                      THEN self
                      ELSE best[1]
                 ELSE self
        axis  == depth % DIM
        left_first == target_[axis + 1] < point.position[axis + 1]
        next  == IF left_first THEN self.left ELSE self.right
        opposite_branch == IF left_first THEN self.right ELSE self.left
        candidate == IF next = None THEN None
                     ELSE Rc_Node_nearest(next[1], target_, depth + 1, Some(best0))
        best1 == IF candidate = None THEN best0 ELSE candidate[1]
    IN IF Abs(target_[axis + 1] - self.point.position[axis + 1])
            < squared_distance(best1.point, target_)
       THEN IF opposite_branch = None THEN None
            ELSE Rc_Node_nearest(opposite_branch[1], target_, depth + 1, Some(best1))
       ELSE Some(best1)

\* impl From<Vec<POINT>> for KdTree (kd_tree.rs).  There is no DIM == 0
\* guard: with DIM = 0 and a non-empty list construct_kdtree evaluates
\* depth % DIM and panics before a tree exists.
Rc_From(value) ==
    /\ pc = "start"
    /\ op' = "from"
    /\ IF DIM = 0 /\ Len(value) > 0
       THEN /\ pc' = "panicked"
            /\ points' = points
            /\ base_node' = None
       ELSE /\ pc' = "ready"
            /\ points' = value
            /\ base_node' \in Rc_construct_kdtree(value, 0..(Len(value) - 1), 0)
    /\ UNCHANGED <<DIM, root, target, result>>

\* KdTree::nearest_by_coord and KdTree::nearest (kd_tree.rs)
Rc_nearest_by_coord(coord) ==
    /\ pc = "ready"
    /\ target = None
    /\ op' = op
    /\ target' = Some(coord)
    /\ pc' = pc
    /\ result' = IF base_node = None THEN None
                 ELSE LET b == Rc_Node_nearest(base_node[1], coord, 0, None)
                      IN IF b = None THEN None ELSE Some(b[1].point.index)
    /\ UNCHANGED <<DIM, root, base_node, points>>

NextRc ==
    \/ pc = "start" /\ \E value \in PointLists(DIM, MaxPoints) : Rc_From(value)
    \/ \E coord \in Coordinates(DIM) : Rc_nearest_by_coord(as_kdtree_point(coord))
    \/ release

SpecRc == Init /\ [][NextRc]_vars

(***************************************************************************)
(* Operators the properties are stated with.                               *)
(***************************************************************************)

RECURSIVE NodeSeq(_)
\* the points carried by the nodes reachable from an Option<node>, in preorder
NodeSeq(opt) ==
    IF opt = None THEN <<>>
    ELSE <<opt[1].point>> \o NodeSeq(opt[1].left) \o NodeSeq(opt[1].right)

SeqSet(sq) == { sq[i] : i \in 1..Len(sq) }

\* the squared distance from target coordinate t to the stored point at index i
StoredDistance(i, t) == SumSq(points[i + 1], t, Len(t))

\* an add_point call ran in this step
AddPointStep == pc = "ready" /\ points' # points

\* the leaf add_point creates in this step
NewLeaf == [point |-> [position |-> points'[Len(points')], index |-> Len(points)],
            left |-> None, right |-> None]

RECURSIVE SubtreeAt(_, _)
\* the Option<node> found by following path ("L"/"R" steps) from an Option<node>
SubtreeAt(opt, path) ==
    IF path = <<>> THEN opt
    ELSE IF opt = None THEN None
    ELSE SubtreeAt(IF Head(path) = "L" THEN opt[1].left ELSE opt[1].right, Tail(path))

RECURSIVE RouteLeftIfLess(_, _, _)
\* the descent "left when strictly less than the node, right otherwise"
RouteLeftIfLess(node, pos, depth) ==
    LET axis  == depth % DIM
        dir   == IF pos[axis + 1] < node.point.position[axis + 1] THEN "L" ELSE "R"
        child == IF dir = "L" THEN node.left ELSE node.right
    IN IF child = None THEN <<dir>>
       ELSE <<dir>> \o RouteLeftIfLess(child[1], pos, depth + 1)

RECURSIVE RouteRightIfGreater(_, _, _)
\* the descent "right when strictly greater than the node, left otherwise"
RouteRightIfGreater(node, pos, depth) ==
    LET axis  == depth % DIM
        dir   == IF pos[axis + 1] > node.point.position[axis + 1] THEN "R" ELSE "L"
        child == IF dir = "L" THEN node.left ELSE node.right
    IN IF child = None THEN <<dir>>
       ELSE <<dir>> \o RouteRightIfGreater(child[1], pos, depth + 1)

RECURSIVE PartitionOK(_, _)
\* the partition invariant below an Option<node> at the given depth
PartitionOK(opt, depth) ==
    \/ opt = None
    \/ LET node == opt[1]
           axis == depth % DIM
       IN /\ \A p \in SeqSet(NodeSeq(node.left)) :
                p.position[axis + 1] <= node.point.position[axis + 1]
          /\ \A p \in SeqSet(NodeSeq(node.right)) :
                p.position[axis + 1] >= node.point.position[axis + 1]
          /\ PartitionOK(node.left, depth + 1)
          /\ PartitionOK(node.right, depth + 1)

RECURSIVE OnlyAttached(_, _, _)
\* new is old with exactly one absent slot filled by leaf, nothing else changed
OnlyAttached(old, new, leaf) ==
    IF old = None THEN new = Some(leaf)
    ELSE /\ new # None
         /\ new[1].point = old[1].point
         /\ \/ new[1].left = old[1].left /\ OnlyAttached(old[1].right, new[1].right, leaf)
            \/ new[1].right = old[1].right /\ OnlyAttached(old[1].left, new[1].left, leaf)

RECURSIVE NearFirstOrder(_, _, _)
\* the search's traversal order without pruning: a node, then the subtree on
\* the target's side of it, then the other subtree
NearFirstOrder(opt, t, depth) ==
    IF opt = None THEN <<>>
    ELSE LET node == opt[1]
             axis == depth % DIM
             left_first == t[axis + 1] < node.point.position[axis + 1]
             near == IF left_first THEN node.left ELSE node.right
             far  == IF left_first THEN node.right ELSE node.left
         IN <<node.point>> \o NearFirstOrder(near, t, depth + 1)
                          \o NearFirstOrder(far, t, depth + 1)

\* the first point of a sequence among those at minimal squared distance from t
FirstNearest(sq, t) ==
    LET i == CHOOSE i \in 1..Len(sq) :
                /\ \A j \in 1..Len(sq) : squared_distance(sq[i], t) <= squared_distance(sq[j], t)
                /\ \A j \in 1..(i - 1) : squared_distance(sq[j], t) > squared_distance(sq[i], t)
    IN sq[i]

RECURSIVE FloorLog2(_)
FloorLog2(n) == IF n <= 1 THEN 0 ELSE 1 + FloorLog2(n \div 2)

(***************************************************************************)
(* Properties.                                                             *)
(***************************************************************************)

\* C1: for DIM >= 1, a query on a tree that holds at least one point returns
\* a stored point whose squared distance to the target is <= the squared
\* distance of every point of the backing storage (so a point added by
\* add_point that is strictly closer than all others is the one returned).
C1_NearestIsMinimal ==
    (DIM >= 1 /\ pc = "ready" /\ target # None /\ size >= 1) =>
        /\ result # None
        /\ result[1] \in 0..(size - 1)
        /\ \A i \in 0..(size - 1) :
              StoredDistance(result[1], target[1]) <= StoredDistance(i, target[1])

\* C1 witness: a 2-D tree of height 3 whose last point came from add_point,
\* is strictly closer to the target than every earlier point, and is returned.
C1_Witness ==
    /\ DIM = 2 /\ op = "add_point" /\ target # None /\ size >= 3 /\ height >= 3
    /\ result = Some(size - 1)
    /\ StoredDistance(size - 1, target[1]) > 0
    /\ \A i \in 0..(size - 2) :
          StoredDistance(size - 1, target[1]) < StoredDistance(i, target[1])

\* C2: on a zero-dimension tree every query returns None and nothing panics,
\* after From and after any add_point calls.
C2_ZeroDimNoResultNoPanic ==
    DIM = 0 => /\ pc # "panicked"
               /\ target # None => result = None

\* C3: in every state of a tree, for every DIM, the root is absent exactly
\* when the tree holds no point: is_empty() <=> size() == 0.
C3_EmptyIffSizeZero ==
    pc = "ready" => (is_empty <=> size = 0)

\* the nodes carry exactly the indices 0..size-1, once each, with the
\* coordinate of the stored point at that index
IndicesExact ==
    LET ns == NodeSeq(root)
    IN /\ Len(ns) = size
       /\ { p.index : p \in SeqSet(ns) } = 0..(size - 1)
       /\ \A p \in SeqSet(ns) : p.position = as_kdtree_point(points[p.index + 1])

\* C4: for DIM >= 1, size() counts the input points plus the add_point
\* calls (each add_point raises it by exactly 1 and the new node carries the
\* previous size as its index), and the nodes carry exactly the indices
\* 0..size-1, once each, with the coordinates of the stored points.
C4_SizeAndIndices ==
    /\ []((DIM >= 1 /\ pc = "ready") => IndicesExact)
    /\ [][(DIM >= 1 /\ AddPointStep) =>
            /\ size' = size + 1
            /\ \E p \in SeqSet(NodeSeq(root')) :
                  p.index = size /\ p.position = as_kdtree_point(points'[size + 1])]_vars

\* C4 witness: a full tree whose last point was added by add_point.
C4_Witness ==
    DIM >= 1 /\ pc = "ready" /\ op = "add_point" /\ size >= 3 /\ IndicesExact

\* C5 as stated: add_point on a non-empty tree attaches the new node where
\* the descent "left when strictly less, right otherwise" ends.
C5_LeftIfStrictlyLess ==
    [][(DIM >= 1 /\ AddPointStep /\ root # None) =>
          SubtreeAt(root', RouteLeftIfLess(root[1], NewLeaf.point.position, 0))
             = Some(NewLeaf)]_vars

\* C5 amended: add_point on a non-empty tree attaches the new node where the
\* descent "right when strictly greater than the node on axis depth mod DIM,
\* left otherwise (equal goes left)" ends.
C5_RightIfStrictlyGreater ==
    [][(DIM >= 1 /\ AddPointStep /\ root # None) =>
          SubtreeAt(root', RouteRightIfGreater(root[1], NewLeaf.point.position, 0))
             = Some(NewLeaf)]_vars

\* C5 witness: add_point placed a point equal to the root on axis 0 in the
\* root's left subtree, two levels down.
C5_Witness ==
    /\ DIM = 2 /\ pc = "ready" /\ op = "add_point" /\ root # None
    /\ \E d \in {"L", "R"} :
          LET n == SubtreeAt(root, <<"L", d>>)
          IN /\ n # None
             /\ n[1].point.index = size - 1
             /\ n[1].point.position[1] = root[1].point.position[1]

\* C6: for DIM >= 1, at every node at depth d every point of the left
\* subtree is <= the node on axis d mod DIM and every point of the right
\* subtree is >= it.
C6_Partition ==
    (DIM >= 1 /\ pc = "ready") => PartitionOK(root, 0)

\* C6 witness: a 2-D tree of height 3 grown by add_point.
C6_Witness ==
    DIM = 2 /\ pc = "ready" /\ op = "add_point" /\ size >= 3 /\ height >= 3

\* C7: for DIM >= 1, add_point keeps every stored point and every node
\* where it is; the only change to the tree is one absent slot (or the
\* absent root) now holding the new leaf.
C7_CreateOnly ==
    [][(DIM >= 1 /\ AddPointStep) =>
          /\ SubSeq(points', 1, Len(points)) = points
          /\ OnlyAttached(root, root', NewLeaf)]_vars

\* C7 witness: add_point attached a third point as the second child of a root.
C7_Witness ==
    /\ DIM >= 1 /\ pc = "ready" /\ op = "add_point" /\ size = 3 /\ height = 2
    /\ root[1].left # None /\ root[1].right # None

\* C8: for DIM >= 1, among the stored points at minimal distance from the
\* target the query returns the one that comes first in the traversal
\* order (a node, its near subtree, its far subtree).
C8_EarliestOfEquidistant ==
    (DIM >= 1 /\ pc = "ready" /\ target # None /\ root # None) =>
        result = Some(FirstNearest(NearFirstOrder(root, target[1], 0), target[1]).index)

\* C8 witness: two stored points with different coordinates are both at the
\* minimal distance from the target.
C8_Witness ==
    /\ DIM = 2 /\ pc = "ready" /\ target # None /\ result # None
    /\ \E j \in 0..(size - 1) :
          /\ points[j + 1] # points[result[1] + 1]
          /\ StoredDistance(j, target[1]) = StoredDistance(result[1], target[1])

\* C9: for DIM >= 1 the tree built by From from N >= 1 points has height
\* floor(log2(N)) + 1 whatever the coordinates, and height 0 for N = 0.
C9_BuildHeight ==
    (DIM >= 1 /\ pc = "ready" /\ op = "from") =>
        height = IF size = 0 THEN 0 ELSE FloorLog2(size) + 1

\* C9 witness: a tree of height 3 built from five points with the same
\* coordinates.
C9_Witness ==
    /\ DIM >= 1 /\ pc = "ready" /\ op = "from" /\ size = 5 /\ height = 3
    /\ \A i \in 1..5 : points[i] = points[1]

\* C10: for DIM >= 1 the reference-counted tree returns a stored point at
\* minimal squared distance from the target, and None only when it is empty.
C10_RcNearestIsMinimal ==
    (DIM >= 1 /\ pc = "ready" /\ target # None) =>
        /\ result = None <=> size = 0
        /\ result # None =>
              \A i \in 0..(size - 1) :
                 StoredDistance(result[1], target[1]) <= StoredDistance(i, target[1])

====
